---------------------------- MODULE Spec2Model ----------------------------
(***************************************************************************)
(* A model of the quote scraper (webscraper_demo.py).                      *)
(*                                                                         *)
(* Spec     : one run of main(): scrape_quotes over the list pages, one    *)
(*            make_request per list page and per entry, then the CSV file. *)
(* FairSpec : Spec with weak fairness of the program's steps.              *)
(* SpecBorn : the "Born:" parsing of scrape_author_info as a pure          *)
(*            function over bounded texts.                                 *)
(* SpecDetail : scrape_author_info and the merge into a quote dictionary   *)
(*            as a pure function over bounded detail pages.                *)
(* SpecCsv  : write_quotes_to_csv followed by load_quotes_from_csv          *)
(*            (game_demo1.py) over bounded records; there every text is a  *)
(*            sequence of code points and the file a sequence of bytes.    *)
(* SpecGame : play_game (game_demo1.py), round after round.                *)
(*                                                                         *)
(* Texts that the program only copies (quote text, author name, href,      *)
(* description) are strings.  Texts that the program splits (the "Born:"   *)
(* paragraph) are sequences of one-character strings, so that str.split    *)
(* and str.strip are computed character by character; the empty text of    *)
(* that kind is << >>.                                                     *)
(* An element that select_one may or may not find is a sequence of length  *)
(* 0 (None) or 1 (the element).                                            *)
(***************************************************************************)
EXTENDS Integers, Sequences, FiniteSets, TLC

VARIABLES
    num_pages,       \* main: the page count given by the user
    site,            \* the list pages served: page number -> document
    pc,              \* position of the run
    page,            \* scrape_quotes: loop variable of line 77
    quote_elements,  \* scrape_quotes: soup.select('div.quote') of the page
    i,               \* scrape_quotes: position in quote_elements (1-based)
    caller,          \* which function is inside make_request
    url,             \* make_request: the url requested
    attempt_number,  \* retry decorator: number of the attempt in progress
    sleep,           \* retry decorator: the last wait, in milliseconds
    quotes,          \* scrape_quotes: the list of quote dictionaries
    log,             \* what logger.info has emitted
    file,            \* the output file: << >> until written
    born_text,       \* SpecBorn: the text of the "Born:" paragraph
    born_info,       \* SpecBorn: author_info after the parsing
    bpc,             \* SpecBorn: position
    cancelled,       \* whether a cancellation has been asked for from outside
    d_element,       \* SpecDetail: the div.quote block of the entry
    d_doc,           \* SpecDetail: the detail page of the entry
    d_record,        \* SpecDetail: the quote dictionary built, << >> before
    dpc,             \* SpecDetail: position
    csv_quotes,      \* SpecCsv: the list given to write_quotes_to_csv
    csv_file,        \* SpecCsv: the bytes of the file
    csv_loaded,      \* SpecCsv: the list load_quotes_from_csv returns
    cpc,             \* SpecCsv: position
    g_quote,         \* play_game: quote
    guesses_remaining, \* play_game: guesses_remaining
    hints_given,     \* play_game: hints_given
    guesses_read,    \* play_game: number of guesses read in the round
    printed,         \* play_game: what the round has printed
    play_again,      \* play_game: the answers to the play-again prompt
    gpc              \* play_game: position

vars == << num_pages, site, pc, page, quote_elements, i, caller, url,
           attempt_number, sleep, quotes, log, file,
           born_text, born_info, bpc, cancelled,
           d_element, d_doc, d_record, dpc,
           csv_quotes, csv_file, csv_loaded, cpc,
           g_quote, guesses_remaining, hints_given, guesses_read, printed,
           play_again, gpc >>

crawl_vars == << num_pages, site, pc, page, quote_elements, i, caller, url,
                 attempt_number, sleep, quotes, log, file >>

born_vars == << born_text, born_info, bpc >>

detail_vars == << d_element, d_doc, d_record, dpc >>

csv_vars == << csv_quotes, csv_file, csv_loaded, cpc >>

game_vars == << g_quote, guesses_remaining, hints_given, guesses_read, printed,
                play_again, gpc >>

-----------------------------------------------------------------------------
(* Bounds *)

\* Largest page count the user enters; the site serves this many pages.
MaxPages == 2

\* The retry decorator has no stop condition: attempts are explored up to
\* this number.
MaxTries == 6

\* Number of pieces a "Born:" text is built from in SpecBorn.
MaxPieces == 5

\* SpecCsv: the longest quote text written, in characters.
MaxFieldLen == 2

\* SpecCsv: the largest number of records written.
MaxRows == 2

\* SpecGame: the largest number of rounds played (nested calls of play_game).
MaxRounds == 3

-----------------------------------------------------------------------------
(* Constants of the program *)

BASE_URL == "https://quotes.toscrape.com"

wait_exponential_multiplier == 2000

wait_exponential_max == 10000

fieldnames == << "Quote", "Author", "Bio Href", "Birthdate", "Birthplace", "Description" >>

-----------------------------------------------------------------------------
(* Strings as character sequences: str.split, str.strip *)

Whitespace == { " ", "\n", "\t" }

\* Whether sep occurs in s at position k.
OccursAt(s, sep, k) ==
    /\ k >= 1
    /\ k + Len(sep) - 1 <= Len(s)
    /\ SubSeq(s, k, k + Len(sep) - 1) = sep

\* str.find, 1-based: the first position of sep in s, 0 when there is none.
find(s, sep) ==
    IF \E k \in 1..Len(s) : OccursAt(s, sep, k)
    THEN CHOOSE k \in 1..Len(s) :
            /\ OccursAt(s, sep, k)
            /\ \A j \in 1..(k - 1) : ~OccursAt(s, sep, j)
    ELSE 0

\* str.split(sep): the pieces between the non-overlapping occurrences of sep,
\* found from left to right.
RECURSIVE split(_, _)
split(s, sep) ==
    LET k == find(s, sep)
    IN  IF k = 0
        THEN << s >>
        ELSE << SubSeq(s, 1, k - 1) >> \o split(SubSeq(s, k + Len(sep), Len(s)), sep)

RECURSIVE lstrip(_)
lstrip(s) ==
    IF s # << >> /\ Head(s) \in Whitespace THEN lstrip(Tail(s)) ELSE s

RECURSIVE rstrip(_)
rstrip(s) ==
    IF s # << >> /\ s[Len(s)] \in Whitespace
    THEN rstrip(SubSeq(s, 1, Len(s) - 1))
    ELSE s

\* str.strip()
strip(s) == rstrip(lstrip(s))

\* dict.get(key, default)
get(d, key, default) == IF key \in DOMAIN d THEN d[key] ELSE default

EmptyDict == [k \in {} |-> << >>]

SEP_COLON == << ":", " " >>

SEP_IN == << " ", "i", "n", " " >>


-----------------------------------------------------------------------------
(* The site: documents served *)

\* A div.quote block of a list page: each child is found (length 1) or not
\* (length 0); the anchor, when found, carries an href attribute or not.
Entry(text, author, anchor) == [ text |-> text, author |-> author, anchor |-> anchor ]

EntryA1 == Entry(<< "q1" >>, << "Ann" >>, << << "/author/Ann" >> >>)

EntryB2 == Entry(<< "q2" >>, << "Bob" >>, << << "/author/Bob" >> >>)

EntryNoText == Entry(<< >>, << "Ann" >>, << << "/author/Ann" >> >>)

EntryNoAuthor == Entry(<< "q3" >>, << >>, << << "/author/Bob" >> >>)

EntryNoAnchor == Entry(<< "q4" >>, << "Cy" >>, << >>)

EntryNoHref == Entry(<< "q5" >>, << "Cy" >>, << << >> >>)

\* The list-page documents a page of the site may be: each is the sequence of
\* its div.quote blocks in document order.
PageDocs ==
    { << >>,
      << EntryA1, EntryB2 >>,
      << EntryB2, EntryA1 >>,
      << EntryNoText, EntryNoAuthor >>,
      << EntryNoAnchor, EntryNoHref >> }

\* A detail page: the text of the paragraph containing "Born:" and the text of
\* div.author-description, each found or not.
Detail(born, description) == [ born |-> born, description |-> description ]

BornAnn == << "B","o","r","n",":"," ","1","9"," ","i","n"," ","U","K" >>

BornBob == << "B","o","r","n",":"," ","7","7" >>

urljoin(base, href) == IF href = "" THEN base ELSE base \o href

\* The document a GET of a detail url answers with.  The site's home page has
\* neither a "Born:" paragraph nor an author description.
DetailDocument(u) ==
    CASE u = urljoin(BASE_URL, "/author/Ann") -> Detail(<< BornAnn >>, << "poet. more" >>)
      [] u = urljoin(BASE_URL, "/author/Bob") -> Detail(<< BornBob >>, << >>)
      [] OTHER -> Detail(<< >>, << >>)

page_url(base, p) == base \o "/page/" \o ToString(p) \o "/"

\* The document a GET of a list-page url answers with.
ListDocument(u) ==
    LET p == CHOOSE n \in DOMAIN site : page_url(BASE_URL, n) = u
    IN  site[p]

-----------------------------------------------------------------------------
(* The extractors *)

\* element.select_one(selector) on a div.quote block
select_one(element, selector) ==
    CASE selector = "span.text" -> element.text
      [] selector = "small.author" -> element.author
      [] selector = "span a" -> element.anchor

get_text(element, selector) ==
    LET text_element == select_one(element, selector)
    IN  IF text_element # << >> THEN text_element[1] ELSE ""

get_href(element, selector) ==
    LET anchor_element == select_one(element, selector)
    IN  IF anchor_element # << >>
        THEN (IF anchor_element[1] # << >> THEN anchor_element[1][1] ELSE "")
        ELSE ""

\* Lines 44-55: the birthdate and birthplace keys from the "Born:" paragraph.
born_fields(born_info_elem) ==
    IF born_info_elem # << >>
    THEN LET born_info_parts == split(born_info_elem[1], SEP_COLON)
         IN  IF Len(born_info_parts) > 1
             THEN LET born_info_text == born_info_parts[2]
                      birth_date_parts == split(born_info_text, SEP_IN)
                  IN  IF Len(birth_date_parts) > 1
                      THEN ("birthdate" :> strip(birth_date_parts[1]))
                           @@ ("birthplace" :> strip(birth_date_parts[2]))
                      ELSE ("birthdate" :> strip(born_info_text))
             ELSE EmptyDict
    ELSE EmptyDict

\* scrape_author_info, after the response has arrived.
scrape_author_info(doc) ==
    born_fields(doc.born)
    @@ ("description" :> (IF doc.description # << >> THEN doc.description[1] ELSE ""))

\* A quote dictionary that holds the enrichment keys of author_info only,
\* with no default for a key it lacks.
quote_info_without_defaults(element, author_info) ==
    [ f \in { "Quote", "Author", "Bio Href" }
            \cup { fieldnames[k] : k \in { n \in 4..6 :
                      << "birthdate", "birthplace", "description" >>[n - 3]
                          \in DOMAIN author_info } } |->
        CASE f = "Quote" -> get_text(element, "span.text")
          [] f = "Author" -> get_text(element, "small.author")
          [] f = "Bio Href" -> get_href(element, "span a")
          [] f = "Birthdate" -> author_info["birthdate"]
          [] f = "Birthplace" -> author_info["birthplace"]
          [] f = "Description" -> author_info["description"] ]

\* Lines 96-103: the quote dictionary of one entry.
quote_info(element, author_info) ==
    [ f \in { fieldnames[k] : k \in DOMAIN fieldnames } |->
        CASE f = "Quote" -> get_text(element, "span.text")
          [] f = "Author" -> get_text(element, "small.author")
          [] f = "Bio Href" -> get_href(element, "span a")
          [] f = "Birthdate" -> get(author_info, "birthdate", << >>)
          [] f = "Birthplace" -> get(author_info, "birthplace", << >>)
          [] f = "Description" -> get(author_info, "description", "") ]

\* A list insertion at the front instead of the end.
append_at_front(list, item) == << item >> \o list

\* A list insertion that puts the item in twice.
append_twice(list, item) == Append(Append(list, item), item)

\* Line 106: quotes.append(quote_info)
append(list, item) == Append(list, item)

-----------------------------------------------------------------------------
(* The retry decorator of make_request (line 21): no stop condition; after a *)
(* failed attempt number n it waits exponential_sleep(n) milliseconds.       *)

\* A backoff whose first wait is the multiplier itself.
exponential_sleep_from_multiplier(previous_attempt_number) ==
    LET exp == 2 ^ (previous_attempt_number - 1)
        result == wait_exponential_multiplier * exp
    IN  IF result > wait_exponential_max THEN wait_exponential_max
        ELSE IF result < 0 THEN 0
        ELSE result

\* Retrying.exponential_sleep of the retrying library, with the parameters of
\* line 21.
exponential_sleep(previous_attempt_number) ==
    LET exp == 2 ^ previous_attempt_number
        result == wait_exponential_multiplier * exp
    IN  IF result > wait_exponential_max THEN wait_exponential_max
        ELSE IF result < 0 THEN 0
        ELSE result

-----------------------------------------------------------------------------
(* Log events *)

LogScraping == [ msg |-> "Scraping quotes..." ]

\* A progress event that numbers the pages from 0.
LogPageFromZero(p, n) == [ msg |-> "Page scraped", page |-> p - 1, found |-> n ]

LogPage(p, n) == [ msg |-> "Page scraped", page |-> p, found |-> n ]

LogComplete(n) == [ msg |-> "Scraping complete", found |-> n ]

\* write_quotes_to_csv: the header row, then one row per quote.
csv_rows(qs) == << fieldnames >> \o qs

-----------------------------------------------------------------------------
(* The run *)

PageCounts == (-1)..MaxPages

BornIdle ==
    /\ born_text = << >>
    /\ born_info = EmptyDict
    /\ bpc = "idle"

DetailIdle ==
    /\ d_element = << >>
    /\ d_doc = << >>
    /\ d_record = << >>
    /\ dpc = "idle"

CsvIdle ==
    /\ csv_quotes = << >>
    /\ csv_file = << >>
    /\ csv_loaded = << >>
    /\ cpc = "idle"

GameIdle ==
    /\ g_quote = << >>
    /\ guesses_remaining = 0
    /\ hints_given = 0
    /\ guesses_read = 0
    /\ printed = << >>
    /\ play_again = << >>
    /\ gpc = "idle"

Init ==
    /\ num_pages \in PageCounts
    /\ site \in [1..MaxPages -> PageDocs]
    /\ pc = "main"
    /\ page = 1
    /\ quote_elements = << >>
    /\ i = 1
    /\ caller = "none"
    /\ url = ""
    /\ attempt_number = 0
    /\ sleep = 0
    /\ quotes = << >>
    /\ log = << >>
    /\ file = << >>
    /\ cancelled = FALSE
    /\ BornIdle
    /\ DetailIdle
    /\ CsvIdle
    /\ GameIdle

\* main calls scrape_quotes (lines 162/170, 74-75).
call_scrape_quotes ==
    /\ pc = "main"
    /\ quotes' = << >>
    /\ log' = Append(log, LogScraping)
    /\ page' = 1
    /\ pc' = "for_page"
    /\ UNCHANGED << num_pages, site, quote_elements, i, caller, url,
                    attempt_number, sleep, file >>

\* Line 77-79: the next page of range(1, num_pages + 1) is requested.
for_page_request ==
    /\ pc = "for_page"
    /\ page <= num_pages
    /\ url' = page_url(BASE_URL, page)
    /\ caller' = "scrape_quotes"
    /\ attempt_number' = 1
    /\ sleep' = 0
    /\ pc' = "make_request"
    /\ UNCHANGED << num_pages, site, page, quote_elements, i, quotes, log, file >>

\* Line 77, 110: the range is exhausted, scrape_quotes returns.
for_page_return ==
    /\ pc = "for_page"
    /\ page > num_pages
    /\ pc' = "write"
    /\ UNCHANGED << num_pages, site, page, quote_elements, i, caller, url,
                    attempt_number, sleep, quotes, log, file >>

\* Lines 23-26 raise: the decorator sleeps and calls make_request again.
request_fails ==
    /\ pc = "make_request"
    /\ attempt_number < MaxTries
    /\ sleep' = exponential_sleep(attempt_number)
    /\ attempt_number' = attempt_number + 1
    /\ UNCHANGED << num_pages, site, pc, page, quote_elements, i, caller, url,
                    quotes, log, file >>

\* Line 25: session.get(url) carries no timeout; a connection that never
\* answers never returns.
request_hangs ==
    /\ pc = "make_request"
    /\ pc' = "hung"
    /\ UNCHANGED << num_pages, site, page, quote_elements, i, caller, url,
                    attempt_number, sleep, quotes, log, file >>

\* Lines 27, 79-83: the list page arrives and its entries are selected.
page_response ==
    /\ pc = "make_request"
    /\ caller = "scrape_quotes"
    /\ quote_elements' = ListDocument(url)
    /\ i' = 1
    /\ caller' = "none"
    /\ attempt_number' = 0
    /\ sleep' = 0
    /\ pc' = "for_element"
    /\ UNCHANGED << num_pages, site, page, url, quotes, log, file >>

\* Lines 86-93, 39: the next entry; its author page is requested.
for_element_request ==
    /\ pc = "for_element"
    /\ i <= Len(quote_elements)
    /\ url' = urljoin(BASE_URL, get_href(quote_elements[i], "span a"))
    /\ caller' = "scrape_author_info"
    /\ attempt_number' = 1
    /\ sleep' = 0
    /\ pc' = "make_request"
    /\ UNCHANGED << num_pages, site, page, quote_elements, i, quotes, log, file >>

\* Lines 27, 40-61, 95-106: the author page arrives, is parsed, and the quote
\* dictionary is appended.
author_response ==
    /\ pc = "make_request"
    /\ caller = "scrape_author_info"
    /\ quotes' = append(quotes, quote_info(quote_elements[i],
                                           scrape_author_info(DetailDocument(url))))
    /\ i' = i + 1
    /\ caller' = "none"
    /\ attempt_number' = 0
    /\ sleep' = 0
    /\ pc' = "for_element"
    /\ UNCHANGED << num_pages, site, page, quote_elements, url, log, file >>

\* A loop over the pages that stops at a page without entries.
page_scraped_stop_on_empty ==
    /\ pc = "for_element"
    /\ i > Len(quote_elements)
    /\ log' = Append(log, LogPage(page, Len(quotes)))
    /\ page' = (IF quote_elements = << >> THEN page ELSE page + 1)
    /\ quote_elements' = << >>
    /\ i' = 1
    /\ pc' = (IF quote_elements = << >> THEN "write" ELSE "for_page")
    /\ UNCHANGED << num_pages, site, caller, url, attempt_number, sleep, quotes, file >>

\* A loop over the entries that leaves the page before its last entry.
page_scraped_before_last ==
    /\ pc = "for_element"
    /\ i >= Len(quote_elements)
    /\ log' = Append(log, LogPage(page, Len(quotes)))
    /\ page' = page + 1
    /\ quote_elements' = << >>
    /\ i' = 1
    /\ pc' = "for_page"
    /\ UNCHANGED << num_pages, site, caller, url, attempt_number, sleep, quotes, file >>

\* Line 108: the entries of the page are exhausted.
page_scraped ==
    /\ pc = "for_element"
    /\ i > Len(quote_elements)
    /\ log' = Append(log, LogPage(page, Len(quotes)))
    /\ page' = page + 1
    /\ quote_elements' = << >>
    /\ i' = 1
    /\ pc' = "for_page"
    /\ UNCHANGED << num_pages, site, caller, url, attempt_number, sleep, quotes, file >>

\* Lines 163-165 / 171-173: the file is written, the count is logged.
write_quotes_to_csv ==
    /\ pc = "write"
    /\ file' = << csv_rows(quotes) >>
    /\ log' = Append(log, LogComplete(Len(quotes)))
    /\ pc' = "done"
    /\ UNCHANGED << num_pages, site, page, quote_elements, i, caller, url,
                    attempt_number, sleep, quotes >>

\* A cancellation is asked for from outside while the crawl runs.  Nothing in
\* make_request (lines 21-27) or scrape_quotes (lines 63-110) takes or reads
\* such a signal.
cancel_arrives ==
    /\ pc \in { "for_page", "make_request", "for_element" }
    /\ ~cancelled
    /\ cancelled' = TRUE
    /\ UNCHANGED << crawl_vars, born_vars, detail_vars, csv_vars, game_vars >>

Next ==
    \/ cancel_arrives
    \/ (call_scrape_quotes /\ UNCHANGED << cancelled, born_vars, detail_vars, csv_vars, game_vars >>)
    \/ (for_page_request /\ UNCHANGED << cancelled, born_vars, detail_vars, csv_vars, game_vars >>)
    \/ (for_page_return /\ UNCHANGED << cancelled, born_vars, detail_vars, csv_vars, game_vars >>)
    \/ (request_fails /\ UNCHANGED << cancelled, born_vars, detail_vars, csv_vars, game_vars >>)
    \/ (request_hangs /\ UNCHANGED << cancelled, born_vars, detail_vars, csv_vars, game_vars >>)
    \/ (page_response /\ UNCHANGED << cancelled, born_vars, detail_vars, csv_vars, game_vars >>)
    \/ (for_element_request /\ UNCHANGED << cancelled, born_vars, detail_vars, csv_vars, game_vars >>)
    \/ (author_response /\ UNCHANGED << cancelled, born_vars, detail_vars, csv_vars, game_vars >>)
    \/ (page_scraped /\ UNCHANGED << cancelled, born_vars, detail_vars, csv_vars, game_vars >>)
    \/ (write_quotes_to_csv /\ UNCHANGED << cancelled, born_vars, detail_vars, csv_vars, game_vars >>)

Spec == Init /\ [][Next]_vars

\* The interpreter runs the single thread whenever it can take a step.
FairSpec == Spec /\ WF_vars(Next)

-----------------------------------------------------------------------------
(* The "Born:" parsing alone, over bounded texts *)

Label == << "B", "o", "r", "n", ":", " " >>

\* What a text after the label is built from: a date character, a place
\* character, the two separators the parsing splits on, and white space.
Pieces == { << "d" >>, << "p" >>, SEP_IN, SEP_COLON, << " " >> }

RECURSIVE Concat(_)
Concat(ps) == IF ps = << >> THEN << >> ELSE Head(ps) \o Concat(Tail(ps))

BornTexts ==
    { Label \o Concat(ps) : ps \in UNION { [1..n -> Pieces] : n \in 0..MaxPieces } }

CrawlIdle ==
    /\ num_pages = 0
    /\ site = [p \in 1..MaxPages |-> << >>]
    /\ pc = "idle"
    /\ page = 1
    /\ quote_elements = << >>
    /\ i = 1
    /\ caller = "none"
    /\ url = ""
    /\ attempt_number = 0
    /\ sleep = 0
    /\ quotes = << >>
    /\ log = << >>
    /\ file = << >>
    /\ cancelled = FALSE

BornInit ==
    /\ CrawlIdle
    /\ DetailIdle
    /\ CsvIdle
    /\ GameIdle
    /\ born_text \in BornTexts
    /\ born_info = EmptyDict
    /\ bpc = "text"

\* Lines 45-55 on a paragraph with the text born_text.
parse_born ==
    /\ bpc = "text"
    /\ born_info' = born_fields(<< born_text >>)
    /\ bpc' = "parsed"
    /\ UNCHANGED born_text

BornNext ==
    parse_born /\ UNCHANGED << crawl_vars, cancelled, detail_vars, csv_vars, game_vars >>

SpecBorn == BornInit /\ [][BornNext]_vars

-----------------------------------------------------------------------------
(* The detail extractor and the merge alone, over bounded detail pages *)

ListEntries ==
    { EntryA1, EntryB2, EntryNoText, EntryNoAuthor, EntryNoAnchor, EntryNoHref }

\* The "Born:" paragraph of a detail page: none, one with date and place, one
\* with a date only, one with nothing after the label, with or without the
\* space after the colon.
DetailBorns ==
    { << >>, << BornAnn >>, << BornBob >>, << Label >>,
      << << "B", "o", "r", "n", ":" >> >> }

DetailDescriptions == { << >>, << "" >>, << "poet. more" >> }

DetailDocs == { Detail(b, d) : b \in DetailBorns, d \in DetailDescriptions }

DetailInit ==
    /\ CrawlIdle
    /\ BornIdle
    /\ CsvIdle
    /\ GameIdle
    /\ d_element \in ListEntries
    /\ d_doc \in DetailDocs
    /\ d_record = << >>
    /\ dpc = "fetched"

\* Lines 40-61 and 95-103 on the entry d_element and the detail page d_doc.
merge_detail ==
    /\ dpc = "fetched"
    /\ d_record' = quote_info(d_element, scrape_author_info(d_doc))
    /\ dpc' = "merged"
    /\ UNCHANGED << d_element, d_doc >>

DetailNext ==
    merge_detail /\ UNCHANGED << crawl_vars, cancelled, born_vars, csv_vars, game_vars >>

SpecDetail == DetailInit /\ [][DetailNext]_vars

-----------------------------------------------------------------------------
(* The CSV file: write_quotes_to_csv, then load_quotes_from_csv.  A text is  *)
(* a sequence of code points, the file a sequence of bytes.                  *)

\* The dialect: ',' and '"' (line 24 of game_demo1.py; the defaults of the
\* writer of line 149), '\r\n' (the writer's default line terminator), and
\* the space that skipinitialspace=True skips.
COMMA == 44

DQUOTE == 34

SPACE == 32

CR == 13

LF == 10

\* fieldnames in code points.
csv_header ==
    << << 81, 117, 111, 116, 101 >>,
       << 65, 117, 116, 104, 111, 114 >>,
       << 66, 105, 111, 32, 72, 114, 101, 102 >>,
       << 66, 105, 114, 116, 104, 100, 97, 116, 101 >>,
       << 66, 105, 114, 116, 104, 112, 108, 97, 99, 101 >>,
       << 68, 101, 115, 99, 114, 105, 112, 116, 105, 111, 110 >> >>

\* DictWriter: the values of a dictionary in the order of fieldnames.
dict_to_list(d) == [ k \in DOMAIN fieldnames |-> d[fieldnames[k]] ]

\* csv.writer, QUOTE_MINIMAL: a field is quoted when it holds the delimiter,
\* the quote character or a character of the line terminator.
needs_quotes(field) ==
    \E k \in DOMAIN field : field[k] \in { COMMA, DQUOTE, CR, LF }

\* csv.writer, doublequote: every quote character is written twice.
RECURSIVE double_quotes(_)
double_quotes(field) ==
    IF field = << >> THEN << >>
    ELSE (IF Head(field) = DQUOTE THEN << DQUOTE, DQUOTE >> ELSE << Head(field) >>)
         \o double_quotes(Tail(field))

write_field(field) ==
    IF needs_quotes(field)
    THEN << DQUOTE >> \o double_quotes(field) \o << DQUOTE >>
    ELSE field

RECURSIVE join_fields(_)
join_fields(row) ==
    IF Len(row) = 1 THEN write_field(row[1])
    ELSE write_field(row[1]) \o << COMMA >> \o join_fields(Tail(row))

\* writer.writerow
writerow(row) == join_fields(row) \o << CR, LF >>

RECURSIVE writerows(_)
writerows(rows) ==
    IF rows = << >> THEN << >> ELSE writerow(Head(rows)) \o writerows(Tail(rows))

\* Lines 149-151: the header, then the rows, as text.
csv_text(qs) ==
    writerow(csv_header) \o writerows([ k \in DOMAIN qs |-> dict_to_list(qs[k]) ])

\* encoding='utf-8' (line 148): the bytes of one code point.
utf8_bytes(c) ==
    IF c < 128 THEN << c >>
    ELSE IF c < 2048 THEN << 192 + (c \div 64), 128 + (c % 64) >>
    ELSE << 224 + (c \div 4096), 128 + ((c \div 64) % 64), 128 + (c % 64) >>

RECURSIVE utf8_encode(_)
utf8_encode(text) ==
    IF text = << >> THEN << >> ELSE utf8_bytes(Head(text)) \o utf8_encode(Tail(text))

\* encoding='latin1' (game_demo1.py line 23): every byte is the code point of
\* the same number.
latin1_decode(bytes) == [ k \in DOMAIN bytes |-> bytes[k] ]

\* The state of csv.reader's parser.
ParserStart == [ state |-> "START_RECORD", field |-> << >>, fields |-> << >>, rows |-> << >> ]

save_field(st) == [ st EXCEPT !.fields = Append(st.fields, st.field), !.field = << >> ]

add_char(st, c) == [ st EXCEPT !.field = Append(st.field, c) ]

\* The parser on one character of a line (delimiter ',', quotechar '"',
\* doublequote, skipinitialspace, not strict).
parse_process_char(st, c) ==
    LET state == IF st.state = "START_RECORD" /\ c \notin { CR, LF }
                 THEN "START_FIELD" ELSE st.state
    IN  CASE state = "START_RECORD" -> [ st EXCEPT !.state = "EAT_CRNL" ]
          [] state = "START_FIELD" ->
               IF c \in { CR, LF } THEN [ save_field(st) EXCEPT !.state = "EAT_CRNL" ]
               ELSE IF c = DQUOTE THEN [ st EXCEPT !.state = "IN_QUOTED_FIELD" ]
               ELSE IF c = SPACE THEN [ st EXCEPT !.state = "START_FIELD" ]
               ELSE IF c = COMMA THEN [ save_field(st) EXCEPT !.state = "START_FIELD" ]
               ELSE [ add_char(st, c) EXCEPT !.state = "IN_FIELD" ]
          [] state = "IN_FIELD" ->
               IF c \in { CR, LF } THEN [ save_field(st) EXCEPT !.state = "EAT_CRNL" ]
               ELSE IF c = COMMA THEN [ save_field(st) EXCEPT !.state = "START_FIELD" ]
               ELSE add_char(st, c)
          [] state = "IN_QUOTED_FIELD" ->
               IF c = DQUOTE THEN [ st EXCEPT !.state = "QUOTE_IN_QUOTED_FIELD" ]
               ELSE add_char(st, c)
          [] state = "QUOTE_IN_QUOTED_FIELD" ->
               IF c = DQUOTE THEN [ add_char(st, c) EXCEPT !.state = "IN_QUOTED_FIELD" ]
               ELSE IF c = COMMA THEN [ save_field(st) EXCEPT !.state = "START_FIELD" ]
               ELSE IF c \in { CR, LF } THEN [ save_field(st) EXCEPT !.state = "EAT_CRNL" ]
               ELSE [ add_char(st, c) EXCEPT !.state = "IN_FIELD" ]
          [] state = "EAT_CRNL" -> st

\* The parser at the end of a line: outside a quoted field the record is
\* complete and is yielded.
parse_end_of_line(st) ==
    CASE st.state = "START_RECORD" -> st
      [] st.state = "IN_QUOTED_FIELD" -> st
      [] st.state = "EAT_CRNL" ->
           [ st EXCEPT !.state = "START_RECORD",
                       !.rows = Append(st.rows, st.fields), !.fields = << >> ]
      [] OTHER ->
           LET saved == save_field(st)
           IN  [ saved EXCEPT !.state = "START_RECORD",
                              !.rows = Append(saved.rows, saved.fields),
                              !.fields = << >> ]

\* The parser on one character of the file: a line ends with its '\n'.
parse_char(st, c) ==
    IF c = LF THEN parse_end_of_line(parse_process_char(st, c))
    ELSE parse_process_char(st, c)

\* The parser on a text, character after character from left to right (the
\* text is taken in halves, which gives the same state as one pass; the state
\* after the first half is a value before the second half starts).
RECURSIVE parse_text(_, _)
parse_text(st, text) ==
    IF text = << >> THEN st
    ELSE IF Len(text) = 1 THEN parse_char(st, text[1])
    ELSE LET half == Len(text) \div 2
         IN  CHOOSE after \in
                 { parse_text(middle, SubSeq(text, half + 1, Len(text))) :
                     middle \in { parse_text(st, SubSeq(text, 1, half)) } } : TRUE

\* csv.reader over the lines of the file: the rows it yields.
reader(text) == parse_text(ParserStart, text).rows

\* game_demo1.py lines 27-34: a Quote from a row.
Quote(row) ==
    [ text |-> row[1], author |-> row[2], bio |-> row[3],
      birthdate |-> row[4], birthplace |-> row[5], description |-> row[6] ]

\* game_demo1.py lines 20-36: the header row is skipped.
load_quotes_from_csv(bytes) ==
    LET rows == reader(latin1_decode(bytes))
    IN  [ k \in 1..(Len(rows) - 1) |-> Quote(rows[k + 1]) ]

\* The characters a written text is made of: a, comma, double quote, space
\* and e with acute accent.
CsvAlphabet == { 97, COMMA, DQUOTE, SPACE, 233 }

CsvTexts == UNION { [1..n -> CsvAlphabet] : n \in 0..MaxFieldLen }

\* A quote dictionary as scrape_quotes builds it.
CsvRecord(text, description) ==
    [ f \in { fieldnames[k] : k \in DOMAIN fieldnames } |->
        CASE f = "Quote" -> text
          [] f = "Author" -> << 65, 110, 110 >>
          [] f = "Bio Href" -> << 47, 97 >>
          [] f = "Birthdate" -> << >>
          [] f = "Birthplace" -> << 85, 75 >>
          [] f = "Description" -> description ]

CsvRecords == { CsvRecord(t, d) : t \in CsvTexts, d \in { << >>, << 97, COMMA, 97 >> } }

CsvInit ==
    /\ CrawlIdle
    /\ BornIdle
    /\ DetailIdle
    /\ GameIdle
    /\ csv_quotes \in UNION { [1..n -> CsvRecords] : n \in 0..MaxRows }
    /\ csv_file = << >>
    /\ csv_loaded = << >>
    /\ cpc = "write"

\* write_quotes_to_csv(quotes, filename)
csv_write ==
    /\ cpc = "write"
    /\ csv_file' = utf8_encode(csv_text(csv_quotes))
    /\ cpc' = "load"
    /\ UNCHANGED << csv_quotes, csv_loaded >>

\* load_quotes_from_csv(filename)
csv_load ==
    /\ cpc = "load"
    /\ csv_loaded' = load_quotes_from_csv(csv_file)
    /\ cpc' = "loaded"
    /\ UNCHANGED << csv_quotes, csv_file >>

CsvNext ==
    \/ (csv_write /\ UNCHANGED << crawl_vars, cancelled, born_vars, detail_vars, game_vars >>)
    \/ (csv_load /\ UNCHANGED << crawl_vars, cancelled, born_vars, detail_vars, game_vars >>)

SpecCsv == CsvInit /\ [][CsvNext]_vars

-----------------------------------------------------------------------------
(* The guessing game: play_game (game_demo1.py lines 42-76).  The author and *)
(* the description of a quote, the guesses and the play-again answers are    *)
(* sequences of one-character strings.                                       *)

\* game_demo1.py line 17
MAX_GUESSES == 4

\* game_demo1.py line 18 (the name is not used by play_game)
NUM_HINTS == 3

\* str.lower() on one character, over the letters the texts here are made of.
lower_char(c) ==
    CASE c = "A" -> "a"
      [] c = "B" -> "b"
      [] c = "E" -> "e"
      [] c = "L" -> "l"
      [] c = "N" -> "n"
      [] c = "O" -> "o"
      [] c = "Y" -> "y"
      [] OTHER -> c

\* str.lower()
lower(s) == [ k \in DOMAIN s |-> lower_char(s[k]) ]

\* str.split() without a separator: the runs of non-whitespace characters.
RECURSIVE split_whitespace(_)
split_whitespace(s) ==
    LET rest == lstrip(s)
        n == IF \E k \in DOMAIN rest : rest[k] \in Whitespace
             THEN (CHOOSE k \in DOMAIN rest :
                      /\ rest[k] \in Whitespace
                      /\ \A j \in 1..(k - 1) : rest[j] \notin Whitespace) - 1
             ELSE Len(rest)
    IN  IF rest = << >> THEN << >>
        ELSE << SubSeq(rest, 1, n) >> \o split_whitespace(SubSeq(rest, n + 1, Len(rest)))

SEP_DOT == << "." >>

\* A Quote as play_game uses it.
GameQuote(text, author, birthdate, birthplace, description) ==
    [ text |-> text, author |-> author, birthdate |-> birthdate,
      birthplace |-> birthplace, description |-> description ]

QuoteAnnLee ==
    GameQuote("q1", << "A", "n", "n", " ", "L", "e", "e" >>, "May 1, 1900", "in Oslo",
              << "a", ".", "b" >>)

QuoteBo == GameQuote("q2", << "B", "o" >>, "", "", << >>)

\* A row whose Author field is empty, as scrape_quotes writes it for an entry
\* without small.author.
QuoteNoAuthor == GameQuote("q3", << >>, "", "", << "c" >>)

\* The quotes loaded from quotes.csv (line 79).
GameQuotes == { QuoteAnnLee, QuoteBo, QuoteNoAuthor }

\* The lines a player may type as a guess.
Guesses ==
    { << >>,
      << " ", "a", "N", "N", " ", "l", "e", "e", " " >>,
      << "B", "O" >>,
      << "x" >> }

\* The lines a player may type at the play-again prompt.
Answers == { << "y" >>, << "Y" >>, << "n" >>, << >>, << "y", " " >> }

\* Lines 48-50
Welcome(quote) == << << "Welcome" >>, << "Here's your quote", quote.text >>,
                    << "Who said that?", MAX_GUESSES >> >>

\* Line 55
Congratulations == << "Congratulations! You won!" >>

\* Line 59
Incorrect(remaining) == << "Incorrect", remaining >>

\* Line 62
HintBirth(quote) == << "Hint: born", quote.birthplace, quote.birthdate >>

\* Line 64: the subscripts [0] and [-1] raise IndexError on an empty list.
InitialsRaise(quote) == split_whitespace(quote.author) = << >>

HintInitials(quote) ==
    LET words == split_whitespace(quote.author)
    IN  << "Hint: initials", words[1][1], words[Len(words)][1] >>

\* Line 66
HintDescription(quote) == << "Hint: known for", split(quote.description, SEP_DOT)[1] >>

\* Line 70
GameOver(quote) == << "Game over", quote.author >>

\* Line 76
Thanks == << "Thanks for playing!" >>

\* Lines 61-66: the hint lines printed when hints_given = given.
hint_lines(quote, given) ==
    CASE given = 0 -> << HintBirth(quote) >>
      [] given = 1 -> << HintInitials(quote) >>
      [] given = 2 -> << HintDescription(quote) >>
      [] OTHER -> << >>

\* Lines 44-50: the start of a round.
start_round ==
    /\ g_quote' \in GameQuotes
    /\ guesses_remaining' = MAX_GUESSES
    /\ hints_given' = 0
    /\ guesses_read' = 0
    /\ printed' = Welcome(g_quote')
    /\ gpc' = "guess"

GameInit ==
    /\ CrawlIdle
    /\ BornIdle
    /\ DetailIdle
    /\ CsvIdle
    /\ g_quote \in GameQuotes
    /\ guesses_remaining = MAX_GUESSES
    /\ hints_given = 0
    /\ guesses_read = 0
    /\ printed = Welcome(g_quote)
    /\ play_again = << >>
    /\ gpc = "guess"

\* Line 54
is_correct(guess, quote) == lower(strip(guess)) = lower(quote.author)

\* Lines 52-56 and 69-72: a guess that matches; the loop is left by break and
\* the play-again prompt is shown.
guess_correct ==
    /\ gpc = "guess"
    /\ guesses_remaining > 0
    /\ \E guess \in Guesses :
          /\ is_correct(guess, g_quote)
          /\ guesses_read' = guesses_read + 1
          /\ printed' = Append(printed, Congratulations)
          /\ gpc' = "play_again"
    /\ UNCHANGED << g_quote, guesses_remaining, hints_given, play_again >>

\* Lines 52-53 and 57-72: a guess that does not match, up to the next input():
\* the next guess, or the play-again prompt after the loop.
guess_wrong ==
    /\ gpc = "guess"
    /\ guesses_remaining > 0
    /\ \E guess \in Guesses :
          /\ ~is_correct(guess, g_quote)
          /\ guesses_read' = guesses_read + 1
          /\ guesses_remaining' = guesses_remaining - 1
          /\ IF hints_given = 1 /\ InitialsRaise(g_quote)
             THEN \* IndexError leaves play_game at line 64
                  /\ printed' = Append(printed, Incorrect(guesses_remaining'))
                  /\ hints_given' = hints_given
                  /\ gpc' = "IndexError"
             ELSE /\ hints_given' = hints_given + 1
                  /\ printed' =
                        printed \o << Incorrect(guesses_remaining') >>
                                \o hint_lines(g_quote, hints_given)
                                \o (IF guesses_remaining' = 0
                                    THEN << GameOver(g_quote) >> ELSE << >>)
                  /\ gpc' = IF guesses_remaining' > 0 THEN "guess" ELSE "play_again"
    /\ UNCHANGED << g_quote, play_again >>

\* Lines 72-74: an answer that is 'y' in lower case; play_game calls itself,
\* and the answer stays in the frame of the caller.
answer_yes ==
    /\ gpc = "play_again"
    /\ Len(play_again) < MaxRounds - 1
    /\ \E answer \in Answers :
          /\ lower(answer) = << "y" >>
          /\ play_again' = Append(play_again, answer)
    /\ start_round

\* Lines 72-76: any other answer; every frame of play_game returns.
answer_other ==
    /\ gpc = "play_again"
    /\ \E answer \in Answers :
          /\ lower(answer) # << "y" >>
          /\ play_again' = Append(play_again, answer)
    /\ printed' = Append(printed, Thanks)
    /\ gpc' = "returned"
    /\ UNCHANGED << g_quote, guesses_remaining, hints_given, guesses_read >>

GameNext ==
    \/ (guess_correct /\ UNCHANGED << crawl_vars, cancelled, born_vars, detail_vars, csv_vars >>)
    \/ (guess_wrong /\ UNCHANGED << crawl_vars, cancelled, born_vars, detail_vars, csv_vars >>)
    \/ (answer_yes /\ UNCHANGED << crawl_vars, cancelled, born_vars, detail_vars, csv_vars >>)
    \/ (answer_other /\ UNCHANGED << crawl_vars, cancelled, born_vars, detail_vars, csv_vars >>)

SpecGame == GameInit /\ [][GameNext]_vars

-----------------------------------------------------------------------------
(* Claims *)

InDetailRequest == pc = "make_request" /\ caller = "scrape_author_info"

\* C1 (as claimed): make_request makes at most 5 attempts for a url: a sixth
\* attempt never starts, the failure is surfaced to the caller instead.
C1_AttemptsBounded == pc = "make_request" => attempt_number <= 5

\* The number of failure events the log holds for list page p.
PageFailureEvents(p) ==
    Cardinality({ k \in DOMAIN log : log[k].msg = "Fetch failed" /\ log[k].page = p })

\* C2 (as claimed): once five attempts at list page p have failed, the page is
\* skipped: the fetcher is no longer requesting it and exactly one failure
\* event for p has been reported.
C2_FailedPageSkipped ==
    \A p \in 1..MaxPages :
        (page = p /\ caller = "scrape_quotes" /\ attempt_number > 5)
            => (pc # "make_request" /\ PageFailureEvents(p) = 1)

\* C3 (as claimed): once five attempts at an entry's detail page have failed,
\* the entry has been emitted as the last record, with its text, author and
\* link and with empty enrichment, and the fetcher is no longer requesting it.
C3_FailedDetailStillEmitted ==
    (caller = "scrape_author_info" /\ attempt_number > 5)
        => /\ pc # "make_request"
           /\ quotes # << >>
           /\ quotes[Len(quotes)] = quote_info(quote_elements[i], EmptyDict)

\* C4 (as claimed): a detail request is in flight only for an entry whose
\* detail link is not empty.
C4_NoFetchForEmptyLink ==
    InDetailRequest => get_href(quote_elements[i], "span a") # ""

\* C5 (as claimed): every record of the sequence has a non-empty text and a
\* non-empty author.
C5_TextAndAuthorNonEmpty ==
    \A k \in DOMAIN quotes : quotes[k]["Quote"] # "" /\ quotes[k]["Author"] # ""

\* The waits of the code after the 1st .. 5th failed attempt, in milliseconds.
CodeWaits == << 4000, 8000, 10000, 10000, 10000 >>

\* The waits the claim states, in milliseconds.
ClaimedWaits == << 2000, 4000, 8000, 10000, 10000 >>

\* C6 (amended): the waits after the 1st .. 5th failed attempt are 4, 8, 10,
\* 10, 10 seconds (the first wait is twice the multiplier of 2 s), and no
\* wait exceeds the cap of 10 s.
C6_WaitSchedule ==
    /\ \A k \in 1..5 :
          (pc = "make_request" /\ attempt_number = k + 1) => sleep = CodeWaits[k]
    /\ sleep <= wait_exponential_max

\* C6: five attempts of one request have failed and the fifth wait is over.
C6_Witness == pc = "make_request" /\ attempt_number = 6 /\ sleep = 10000

\* C6 (as claimed): the waits after the 1st .. 5th failed attempt are 2, 4,
\* 8, 10, 10 seconds.
C6_ClaimedSchedule ==
    \A k \in 1..5 :
        (pc = "make_request" /\ attempt_number = k + 1) => sleep = ClaimedWaits[k]

\* C7 (as claimed): with a page count of 0 or less the run is stopped at
\* once: no fetch is issued, scrape_quotes does not return normally and no
\* output file is written.
C7_BadPageCountFatal ==
    num_pages <= 0 => (pc \notin { "make_request", "write", "done" } /\ file = << >>)

\* The records of list page p in document order.
PageRecords(p) ==
    [ k \in 1..Len(site[p]) |->
        quote_info(site[p][k],
                   scrape_author_info(DetailDocument(
                       urljoin(BASE_URL, get_href(site[p][k], "span a"))))) ]

\* The records of list pages 1..n in page order.
RECURSIVE RecordsUpTo(_)
RecordsUpTo(n) == IF n <= 0 THEN << >> ELSE RecordsUpTo(n - 1) \o PageRecords(n)

\* C8: at every moment the sequence is the records of the pages before the
\* current one in page order, followed by the records of the entries of the
\* current page before the current one in document order; so it is a
\* function of the page contents alone, and on return it is the records of
\* pages 1..num_pages in page order, then document order.
C8_PageThenDocumentOrder ==
    /\ pc \in { "for_page", "make_request", "for_element", "hung" } =>
          quotes = RecordsUpTo(page - 1)
                   \o (IF page <= num_pages
                       THEN SubSeq(PageRecords(page), 1, i - 1)
                       ELSE << >>)
    /\ pc \in { "write", "done" } => quotes = RecordsUpTo(num_pages)

\* C8: a run has returned the four records of two pages with different
\* contents.
C8_Witness ==
    /\ pc = "done"
    /\ num_pages = 2
    /\ site[1] = << EntryA1, EntryB2 >>
    /\ site[2] = << EntryNoAnchor, EntryNoHref >>
    /\ Len(quotes) = 4

\* The text after the "Born:" label.
Remainder(t) == SubSeq(t, Len(Label) + 1, Len(t))

\* C9 (as claimed): when the text after the label contains " in ", birthdate
\* is the text before the separator and birthplace the text after it; when it
\* does not, birthdate is the entire remainder and birthplace is empty (all
\* up to surrounding white space).
C9_BornSplit ==
    bpc = "parsed" =>
        LET rem == Remainder(born_text)
            date == get(born_info, "birthdate", << >>)
            place == get(born_info, "birthplace", << >>)
        IN  IF find(rem, SEP_IN) # 0
            THEN \E k \in 1..Len(rem) :
                    /\ OccursAt(rem, SEP_IN, k)
                    /\ date = strip(SubSeq(rem, 1, k - 1))
                    /\ place = strip(SubSeq(rem, k + Len(SEP_IN), Len(rem)))
            ELSE date = strip(rem) /\ place = << >>

\* C10 (as claimed): an attempt whose connection hangs is ended, so the run
\* does not stay in it forever.
C10_HungAttemptEnds == (pc = "hung") ~> (pc # "hung")

\* C11: every quote dictionary has exactly the six fields, and a field the
\* detail page does not yield is the empty text: birth date and birth place
\* when there is no "Born:" paragraph or nothing splits off its label, birth
\* place when the text after the label has no " in ", description when there
\* is no description block.
C11_SixFieldsEmptyDefaults ==
    dpc = "merged" =>
        /\ DOMAIN d_record = { fieldnames[k] : k \in DOMAIN fieldnames }
        /\ (d_doc.born = << >> \/ find(d_doc.born[1], SEP_COLON) = 0)
              => (d_record["Birthdate"] = << >> /\ d_record["Birthplace"] = << >>)
        /\ (d_doc.born # << >> /\ find(d_doc.born[1], SEP_IN) = 0)
              => d_record["Birthplace"] = << >>
        /\ d_doc.description = << >> => d_record["Description"] = ""

\* C11: a detail page that yields a birth date only has been merged.
C11_Witness ==
    /\ dpc = "merged"
    /\ d_doc = Detail(<< BornBob >>, << >>)
    /\ d_record["Birthdate"] = << "7", "7" >>
    /\ d_record["Birthplace"] = << >>
    /\ d_record["Description"] = ""

\* The progress events of the log, in the order emitted.
PageEvents == SelectSeq(log, LAMBDA e : e.msg = "Page scraped")

\* The number of entries of the list pages before page p.
RECURSIVE EntriesBefore(_)
EntriesBefore(p) == IF p <= 1 THEN 0 ELSE EntriesBefore(p - 1) + Len(site[p - 1])

\* C12: a list page is requested only for a page number in 1..num_pages, at
\* the url of that page number (different page numbers have different
\* urls), and only when the pages before it have been completed in
\* increasing order, whether or not they had entries; scrape_quotes returns
\* only after page num_pages has been processed.
C12_PageCountDecidesStop ==
    /\ (pc = "make_request" /\ caller = "scrape_quotes")
          => (page \in 1..num_pages /\ url = page_url(BASE_URL, page))
    /\ \A p, q \in 1..MaxPages :
          p # q => page_url(BASE_URL, p) # page_url(BASE_URL, q)
    /\ Len(PageEvents) = page - 1
    /\ \A k \in 1..Len(PageEvents) : PageEvents[k].page = k
    /\ pc \in { "write", "done" }
          => page = (IF num_pages > 0 THEN num_pages ELSE 0) + 1

\* C12: a run over two pages has returned the entries of page 2 although
\* page 1 had none.
C12_Witness ==
    /\ pc = "done"
    /\ num_pages = 2
    /\ site[1] = << >>
    /\ Len(site[2]) = 2
    /\ Len(quotes) = 2

\* The largest number of entry blocks on any of the list pages 1..n.
EntriesPerPage(n) ==
    IF n <= 0 THEN 0
    ELSE CHOOSE m \in { Len(site[p]) : p \in 1..n } :
            \A p \in 1..n : Len(site[p]) <= m

\* C13: for a page count N >= 0 the sequence never holds more than
\* (entries-per-page x N) records, at any moment and so on return; for
\* N = 0 it is empty and no request is ever made.
C13_LengthBound ==
    /\ num_pages >= 0 => Len(quotes) <= EntriesPerPage(num_pages) * num_pages
    /\ num_pages = 0 => (quotes = << >> /\ pc # "make_request" /\ url = "")

\* C13: a run has returned as many records as the bound allows.
C13_Witness ==
    /\ pc = "done"
    /\ num_pages = 2
    /\ Len(quotes) = EntriesPerPage(2) * 2
    /\ Len(quotes) > 0

\* C14: while a list page is being requested, the record of every entry of
\* every earlier page has been appended; a detail request is always for the
\* next entry of the page fetched last, all entries before it appended.
C14_PagesSequential ==
    /\ (pc = "make_request" /\ caller = "scrape_quotes")
          => Len(quotes) = EntriesBefore(page)
    /\ InDetailRequest
          => /\ quote_elements = site[page]
             /\ i \in 1..Len(quote_elements)
             /\ Len(quotes) = EntriesBefore(page) + i - 1

\* C14: page 2 is being requested after both records of page 1.
C14_Witness ==
    /\ pc = "make_request"
    /\ caller = "scrape_quotes"
    /\ page = 2
    /\ Len(site[1]) = 2
    /\ Len(quotes) = 2

\* C15: the log holds exactly one progress event per completed page, in page
\* order, and the event of page k carries k and the number of records of
\* pages 1..k.
C15_ProgressEvents ==
    /\ Len(PageEvents) = (IF pc = "main" THEN 0 ELSE page - 1)
    /\ \A k \in 1..Len(PageEvents) :
          PageEvents[k] = [ msg |-> "Page scraped", page |-> k,
                            found |-> EntriesBefore(k + 1) ]

\* C15: two pages of two entries each have been completed.
C15_Witness ==
    /\ pc = "done"
    /\ Len(PageEvents) = 2
    /\ PageEvents[1].found = 2
    /\ PageEvents[2].found = 4

\* C16 (as claimed): once a cancellation has arrived, no further attempt is
\* started: neither a retry of the request in progress nor a request of a
\* further page.
C16_CancelStopsAttempts == [][cancelled => attempt_number' <= attempt_number]_vars

\* C17 (as claimed): the list read back from the file has as many records as
\* the list written, in the same order, with the same six field values.
C17_RoundTrip ==
    cpc = "loaded" =>
        /\ Len(csv_loaded) = Len(csv_quotes)
        /\ \A k \in DOMAIN csv_quotes :
              csv_loaded[k] = Quote(dict_to_list(csv_quotes[k]))

\* Whether the round has printed a line that starts with the word given.
HasPrinted(word) == \E k \in DOMAIN printed : printed[k][1] = word

\* Whether the round is over: the play-again prompt is reached, or play_game
\* has been left.
RoundOver == gpc \in { "play_again", "returned", "IndexError" }

\* C18 (as claimed): in a round at most MAX_GUESSES guesses are read,
\* guesses_remaining stays within 0..MAX_GUESSES, guesses_remaining +
\* hints_given = MAX_GUESSES after every guess, and a round that is over has
\* printed exactly one of the win message and the game-over message, the
\* game-over message exactly when all MAX_GUESSES guesses were wrong.
C18_OneOutcome ==
    /\ guesses_read <= MAX_GUESSES
    /\ guesses_remaining \in 0..MAX_GUESSES
    /\ guesses_remaining + hints_given = MAX_GUESSES
    /\ ~(HasPrinted(Congratulations[1]) /\ HasPrinted("Game over"))
    /\ RoundOver =>
          /\ HasPrinted(Congratulations[1]) \/ HasPrinted("Game over")
          /\ HasPrinted("Game over") <=> guesses_remaining = 0

\* The hints the round has printed, in the order printed.
HintWords == { "Hint: born", "Hint: initials", "Hint: known for" }

IsHint(line) == line[1] \in HintWords

HintsShown ==
    LET lines == SelectSeq(printed, IsHint)
    IN  [ k \in DOMAIN lines |-> lines[k][1] ]

HintOrder == << "Hint: born", "Hint: initials", "Hint: known for" >>

\* C19 (as claimed): after w wrong guesses of a round the hints shown are the
\* first w of birth, initials, description (all three after the fourth wrong
\* guess), each once and in that order, never more than NUM_HINTS.
C19_HintsInOrder ==
    LET wrong == MAX_GUESSES - guesses_remaining
        due == IF wrong < NUM_HINTS THEN wrong ELSE NUM_HINTS
    IN  /\ Len(HintsShown) <= NUM_HINTS
        /\ HintsShown = SubSeq(HintOrder, 1, due)

\* Whether play_game has been left, by return or by an exception.
GameEnded == gpc \in { "returned", "IndexError" }

\* C20 (as claimed): at the play-again prompt an answer that is 'y' in lower
\* case starts a fresh round (guesses_remaining = MAX_GUESSES, hints_given = 0,
\* a quote drawn from the list), any other answer ends the game, and the game
\* ends in no other way.
C20_AnswerDecides ==
    [][ /\ (gpc = "play_again" /\ lower(play_again'[Len(play_again')]) = << "y" >>) =>
              /\ gpc' = "guess"
              /\ guesses_remaining' = MAX_GUESSES
              /\ hints_given' = 0
              /\ guesses_read' = 0
              /\ g_quote' \in GameQuotes
        /\ (gpc = "play_again" /\ lower(play_again'[Len(play_again')]) # << "y" >>) =>
              gpc' = "returned"
        /\ (GameEnded' /\ ~GameEnded) =>
              /\ gpc = "play_again"
              /\ Len(play_again') = Len(play_again) + 1
              /\ lower(play_again'[Len(play_again')]) # << "y" >>
      ]_vars

=============================================================================
